---- MODULE Spec2Model ----
(***************************************************************************)
(* Model of the message-pickup mailbox of acapy-plugin-pickup:             *)
(*   - RedisUndeliveredQueue (undelivered_queue/redis_persisted_queue.py)  *)
(*     on top of the Redis commands it issues (ZADD NX, EXPIRE, SETEX,     *)
(*     ZRANGE, ZRANGE BYSCORE, ZCARD, ZREM, MGET, DEL);                    *)
(*   - DeliveryRequest.handle / MessagesReceived.handle                    *)
(*     (protocol/delivery.py);                                             *)
(*   - the undeliverable event adapter (__init__.py).                      *)
(* Under Spec, SpecProtocol, SpecScenario, SpecMailbox and SpecSetup every *)
(* action is one whole awaited call, run without interleaving. Under       *)
(* SpecAdds, SpecAddRemove and SpecRace calls are in flight together and   *)
(* an action is one awaited step of a call.                                *)
(* Time is an integer clock of seconds; several calls may read the same    *)
(* clock value.                                                            *)
(***************************************************************************)
EXTENDS Integers, Sequences, FiniteSets, TLC

\* ---------------------------------------------------------------- bounds
MaxTime == 2
MaxLimit == 2
QueueTtl == 2

\* ------------------------------------------------------------ input sets
Keys == {"K1", "K2"}
Msgs == {"A", "B", "C"}
ThreadIds == {"t1", "t2"}
Routes == {"all", "none"}
None == "None"
OptKeys == {None, "K1"}
Limits == 1..MaxLimit
\* the (recipient key, payload) pairs that get enqueued: two payloads for
\* K1, one of them also addressed to K2; "C" is never enqueued, its
\* identifier is the unknown identifier of acknowledgements
Posted == {<<"K1", "A">>, <<"K1", "B">>, <<"K2", "A">>}

\* plugin settings: settings.get("persistence"), settings["redis"]["server"]
\* and settings["redis"]["ttl_hours"]; an optional integer is the empty set
\* or a one-element set
MaxHours == 2
REDIS_ENDPOINT == "redis://redis:6379"
Persistences == {None, "mem", "redis", "disk"}
Servers == {None, REDIS_ENDPOINT}
OptHours == {{}} \cup {{h} : h \in -1..MaxHours}
Settings ==
    [persistence : Persistences, server : Servers, ttl_hours : OptHours]

\* message_id_for_outbound: b58encode(sha256(msg)); an injective digest
\* whose order is unrelated to the payload's order.
message_id_for_outbound(msg) ==
    CASE msg = "A" -> 2
      [] msg = "B" -> 3
      [] msg = "C" -> 1

Idents == {message_id_for_outbound(m) : m \in Msgs}

\* ----------------------------------------------------------------- state
VARIABLES
    now,        \* time.time(), whole seconds
    index,      \* Redis sorted set per recipient key: set of [member, score]
    index_exp,  \* Redis expiry time of the sorted-set key, -1 when none
    payload,    \* Redis string per identifier: [val, exp], val = None if absent
    enq,        \* history: time of the latest add_message(key, msg) that no
                \* remove_messages_for_key(key, ..) has named since, else -1
    last,       \* the last call, its arguments and what it returned
    context,    \* the InjectionContext: message types registered, event
                \* subscribed, the queue bound and its ttl_seconds
    tasks       \* coroutines suspended at an await: the backend command
                \* each one issues next, and its local variables

vars == <<now, index, index_exp, payload, enq, last, context, tasks>>

\* a coroutine slot with no call in flight
Tasks == {"p", "q"}
Idle ==
    [pc |-> "idle", key |-> None, msg |-> None, ids |-> {}, count |-> 0,
     rk |-> None, thid |-> None, score |-> 0, held |-> {}]

\* self.ttl_seconds of the bound RedisUndeliveredQueue
ttl_seconds == context.ttl_seconds

\* the context once setup has returned with a Redis queue of the given ttl
Bound(ttl) ==
    [settings |-> [persistence |-> "redis", server |-> REDIS_ENDPOINT,
                   ttl_hours |-> {ttl}],
     registered |-> TRUE, subscribed |-> TRUE, queue |-> "redis",
     ttl_seconds |-> ttl]

NoPayload == [val |-> None, exp |-> -1]

NoCall ==
    [op |-> "init", key |-> None, msg |-> None, ids |-> {}, count |-> 0,
     rk |-> None, thid |-> None, route |-> None,
     recipients |-> {}, has |-> FALSE, n |-> 0, msgs |-> <<>>,
     raised |-> FALSE, replies |-> <<>>,
     before |-> [members |-> {}, msgs |-> <<>>], entries |-> {}]

\* ------------------------------------------------- Redis command helpers
Range(s) == {s[i] : i \in DOMAIN s}

\* a sorted set read newest first
ZLess_descending(a, b) ==
    \/ a.score > b.score
    \/ a.score = b.score /\ a.member < b.member
    \/ a = b

\* sorted-set order: by score, ties by member
ZLess(a, b) ==
    \/ a.score < b.score
    \/ a.score = b.score /\ a.member < b.member
    \/ a = b

RECURSIVE ZSorted(_)
ZSorted(zset) ==
    IF zset = {} THEN <<>>
    ELSE LET lo == CHOOSE r \in zset : \A q \in zset : ZLess(r, q)
         IN  <<lo>> \o ZSorted(zset \ {lo})

\* ZRANGE key start stop (by rank, inclusive, stop = -1 is the last rank)
ZRange(zset, start, stop) ==
    LET s    == ZSorted(zset)
        last_rank == IF stop < 0 THEN Len(s) + stop ELSE stop
        hi   == IF last_rank + 1 > Len(s) THEN Len(s) ELSE last_rank + 1
    IN  [i \in 1..(IF hi - start < 0 THEN 0 ELSE hi - start) |->
            s[start + i].member]

\* ZRANGE key min max BYSCORE (inclusive)
ZRangeByScore(zset, min, max) ==
    {r \in zset : min <= r.score /\ r.score <= max}

\* ZADD key score member: an existing member takes the new score
ZAdd(zset, member, score) ==
    {r \in zset : r.member # member}
        \cup {[member |-> member, score |-> score]}

\* ZADD key NX score member
ZAddNX(zset, member, score) ==
    IF \E r \in zset : r.member = member THEN zset
    ELSE zset \cup {[member |-> member, score |-> score]}

\* ZREM key member...
ZRem(zset, members) == {r \in zset : r.member \notin members}

\* MGET key...
MGet(pl, idents) == [i \in 1..Len(idents) |-> pl[idents[i]].val]

RECURSIVE DropNone(_)
DropNone(s) ==
    IF s = <<>> THEN <<>>
    ELSE IF Head(s) = None THEN DropNone(Tail(s))
         ELSE <<Head(s)>> \o DropNone(Tail(s))

Members(zset) == {r.member : r \in zset}

\* ---------------------------------------------------------- store steps
\* a sweep that spares the entry whose score is exactly time.time() - ttl
expire_helper_strict(idx, key, t) ==
    LET msg_idents ==
            Members(ZRangeByScore(idx[key], 0, t - ttl_seconds - 1))
    IN  IF msg_idents # {}
        THEN [idx EXCEPT ![key] = ZRem(idx[key], msg_idents)]
        ELSE idx

\* expire_helper: evict index entries with score <= time.time() - ttl
expire_helper(idx, key, t) ==
    LET msg_idents == Members(ZRangeByScore(idx[key], 0, t - ttl_seconds))
    IN  IF msg_idents # {}
        THEN [idx EXCEPT ![key] = ZRem(idx[key], msg_idents)]
        ELSE idx

\* the sorted-set key disappears with its last member, and its expiry with it
KeepExp(idx, iexp) == [k \in Keys |-> IF idx[k] = {} THEN -1 ELSE iexp[k]]

\* add_message as a function of the store: zadd nx, expire, setex
AddStore(idx, iexp, pl, key, msg, t) ==
    LET msg_ident == message_id_for_outbound(msg)
    IN  [idx  |-> [idx EXCEPT ![key] = ZAddNX(idx[key], msg_ident, t)],
         iexp |-> [iexp EXCEPT ![key] = t + ttl_seconds],
         pl   |-> [pl EXCEPT ![msg_ident] =
                      [val |-> msg, exp |-> t + ttl_seconds]]]

\* a range read whose last rank is count instead of count - 1
GetMessages_inclusive(idx, pl, key, count) ==
    DropNone(MGet(pl, ZRange(idx[key], 0, count)))

\* get_messages_for_key after its expire_helper
GetMessages(idx, pl, key, count) ==
    DropNone(MGet(pl, ZRange(idx[key], 0, count - 1)))

\* a removal that acts only when every supplied identifier is known
RemoveStore_subset(idx, pl, key, msg_idents) ==
    LET known_msg_idents == Range(ZRange(idx[key], 0, -1))
    IN  IF msg_idents # {} /\ msg_idents \subseteq known_msg_idents
        THEN [idx |-> [idx EXCEPT ![key] = ZRem(idx[key], msg_idents)],
              pl  |-> [i \in Idents |->
                         IF i \in msg_idents THEN NoPayload ELSE pl[i]],
              struck |-> msg_idents]
        ELSE [idx |-> idx, pl |-> pl, struck |-> {}]

\* remove_messages_for_key after its expire_helper
RemoveStore(idx, pl, key, msg_idents) ==
    LET known_msg_idents == Range(ZRange(idx[key], 0, -1))
        intersection == known_msg_idents \cap msg_idents
    IN  IF intersection # {}
        THEN [idx |-> [idx EXCEPT ![key] = ZRem(idx[key], intersection)],
              pl  |-> [i \in Idents |->
                         IF i \in intersection THEN NoPayload ELSE pl[i]],
              struck |-> intersection]
        ELSE [idx |-> idx, pl |-> pl, struck |-> {}]

\* what the read calls would answer in the current state
Swept(k) == expire_helper(index, k, now)[k]
HasView(k) == ZRange(Swept(k), 0, 0) # <<>>
CountView(k) == Cardinality(Swept(k))
GetView(k, n) == GetMessages(expire_helper(index, k, now), payload, k, n)
AllView(k) == GetView(k, Cardinality(Msgs))

\* the mailbox of key as the reads see it when a call starts
Before(k) == [members |-> Members(Swept(k)), msgs |-> AllView(k)]

\* --------------------------------------------------------------- actions
\* an empty Redis database
InitStore ==
    /\ now = 0
    /\ index = [k \in Keys |-> {}]
    /\ index_exp = [k \in Keys |-> -1]
    /\ payload = [i \in Idents |-> NoPayload]
    /\ enq = [k \in Keys |-> [m \in Msgs |-> -1]]
    /\ last = NoCall
    /\ tasks = [t \in Tasks |-> Idle]

Init ==
    /\ InitStore
    /\ context = Bound(QueueTtl)

\* the clock advances; Redis reclaims every key whose expiry time is reached
Tick ==
    /\ now < MaxTime
    /\ now' = now + 1
    /\ LET live == [k \in Keys |->
                      IF index_exp[k] >= 0 /\ index_exp[k] <= now + 1
                      THEN {} ELSE index[k]]
       IN  /\ index' = live
           /\ index_exp' = KeepExp(live, index_exp)
    /\ payload' = [i \in Idents |->
                     IF payload[i].val # None /\ payload[i].exp <= now + 1
                     THEN NoPayload ELSE payload[i]]
    /\ last' = [NoCall EXCEPT !.op = "tick"]
    /\ UNCHANGED <<enq, context, tasks>>

add_message(recipient_key, msg) ==
    LET st == AddStore(index, index_exp, payload, recipient_key, msg, now)
    IN  /\ index' = st.idx
        /\ index_exp' = st.iexp
        /\ payload' = st.pl
        /\ enq' = [enq EXCEPT ![recipient_key][msg] = now]
        /\ last' = [NoCall EXCEPT !.op = "add_message",
                                  !.key = recipient_key, !.msg = msg,
                                  !.before = Before(recipient_key),
                                  !.entries = Swept(recipient_key)]
        /\ UNCHANGED <<now, context, tasks>>

has_message_for_key(recipient_key) ==
    LET idx == expire_helper(index, recipient_key, now)
        msg_ident == ZRange(idx[recipient_key], 0, 0)
    IN  /\ index' = idx
        /\ index_exp' = KeepExp(idx, index_exp)
        /\ last' = [NoCall EXCEPT !.op = "has_message_for_key",
                                  !.key = recipient_key,
                                  !.has = (msg_ident # <<>>)]
        /\ UNCHANGED <<now, payload, enq, context, tasks>>

message_count_for_key(key) ==
    LET idx == expire_helper(index, key, now)
    IN  /\ index' = idx
        /\ index_exp' = KeepExp(idx, index_exp)
        /\ last' = [NoCall EXCEPT !.op = "message_count_for_key",
                                  !.key = key,
                                  !.n = Cardinality(idx[key])]
        /\ UNCHANGED <<now, payload, enq, context, tasks>>

\* a read that takes what it returns out of the index
get_messages_for_key_pop(recipient_key, count) ==
    LET idx == expire_helper(index, recipient_key, now)
        got == Range(ZRange(idx[recipient_key], 0, count - 1))
        rest == [idx EXCEPT ![recipient_key] = ZRem(idx[recipient_key], got)]
    IN  /\ index' = rest
        /\ index_exp' = KeepExp(rest, index_exp)
        /\ last' = [NoCall EXCEPT !.op = "get_messages_for_key",
                                  !.key = recipient_key, !.count = count,
                                  !.before = Before(recipient_key),
                                  !.msgs = GetMessages(idx, payload,
                                                       recipient_key, count)]
        /\ UNCHANGED <<now, payload, enq, context, tasks>>

get_messages_for_key(recipient_key, count) ==
    LET idx == expire_helper(index, recipient_key, now)
    IN  /\ index' = idx
        /\ index_exp' = KeepExp(idx, index_exp)
        /\ last' = [NoCall EXCEPT !.op = "get_messages_for_key",
                                  !.key = recipient_key, !.count = count,
                                  !.before = Before(recipient_key),
                                  !.msgs = GetMessages(idx, payload,
                                                       recipient_key, count)]
        /\ UNCHANGED <<now, payload, enq, context, tasks>>

inspect_all_messages_for_key(recipient_key) ==
    LET idx == expire_helper(index, recipient_key, now)
        msg_idents == ZRange(idx[recipient_key], 0, -1)
    IN  /\ index' = idx
        /\ index_exp' = KeepExp(idx, index_exp)
        /\ last' = [NoCall EXCEPT !.op = "inspect_all_messages_for_key",
                                  !.key = recipient_key,
                                  !.msgs = IF msg_idents # <<>>
                                           THEN MGet(payload, msg_idents)
                                           ELSE <<>>]
        /\ UNCHANGED <<now, payload, enq, context, tasks>>

remove_messages_for_key(recipient_key, msg_idents) ==
    LET idx == expire_helper(index, recipient_key, now)
        st  == RemoveStore(idx, payload, recipient_key, msg_idents)
    IN  /\ index' = st.idx
        /\ index_exp' = KeepExp(st.idx, index_exp)
        /\ payload' = st.pl
        /\ enq' = [enq EXCEPT ![recipient_key] =
                     [m \in Msgs |->
                        IF message_id_for_outbound(m) \in msg_idents
                        THEN -1 ELSE enq[recipient_key][m]]]
        /\ last' = [NoCall EXCEPT !.op = "remove_messages_for_key",
                                  !.key = recipient_key, !.ids = msg_idents,
                                  !.before = Before(recipient_key),
                                  !.n = Cardinality(st.struck)]
        /\ UNCHANGED <<now, context, tasks>>

\* ------------------------------------------------------ protocol replies
Status(recipient_key, message_count, thid) ==
    [type |-> "status", thid |-> thid, recipient_key |-> recipient_key,
     message_count |-> message_count, attachments |-> <<>>]

Delivery(message_attachments, thid) ==
    [type |-> "delivery", thid |-> thid, recipient_key |-> None,
     message_count |-> 0, attachments |-> message_attachments]

\* an attachment that carries no message identifier
Attach_anonymous(msg) == [ident |-> 0, value |-> msg]

\* Attach.data_base64(ident=<identifier of msg>, value=msg)
Attach(msg) == [ident |-> message_id_for_outbound(msg), value |-> msg]

\* a handler whose empty-mailbox Status reports the requester's resolved key
DeliveryReplies_key(idx, pl, key, limit, rk, thid, t) ==
    LET idx1 == expire_helper(idx, key, t)
    IN  IF ZRange(idx1[key], 0, 0) # <<>>
        THEN LET msgs == GetMessages(expire_helper(idx1, key, t), pl,
                                     key, limit)
                 message_attachments ==
                     [i \in 1..Len(msgs) |-> Attach(msgs[i])]
             IN  <<Delivery(message_attachments, thid)>>
        ELSE <<Status(key, 0, thid)>>

\* DeliveryRequest.handle: what it leaves in the index and what it replies
DeliveryReplies(idx, pl, key, limit, rk, thid, t) ==
    LET idx1 == expire_helper(idx, key, t)
    IN  IF ZRange(idx1[key], 0, 0) # <<>>
        THEN LET msgs == GetMessages(expire_helper(idx1, key, t), pl,
                                     key, limit)
                 message_attachments ==
                     [i \in 1..Len(msgs) |-> Attach(msgs[i])]
             IN  <<Delivery(message_attachments, thid)>>
        ELSE <<Status(rk, 0, thid)>>

\* a handler that sweeps the requester's index before it looks at the
\* return route
DeliveryRequest_handle_late_check(key, limit, rk, thid, route) ==
    LET call == [NoCall EXCEPT !.op = "DeliveryRequest", !.key = key,
                               !.count = limit, !.rk = rk, !.thid = thid,
                               !.route = route]
        idx == expire_helper(index, key, now)
    IN  /\ index' = idx
        /\ index_exp' = KeepExp(idx, index_exp)
        /\ last' = IF route # "all"
                   THEN [call EXCEPT !.raised = TRUE]
                   ELSE [call EXCEPT !.before = Before(key),
                                     !.replies =
                                DeliveryReplies(index, payload, key, limit,
                                                rk, thid, now)]
        /\ UNCHANGED <<now, payload, enq, context, tasks>>

DeliveryRequest_handle(key, limit, rk, thid, route) ==
    LET call == [NoCall EXCEPT !.op = "DeliveryRequest", !.key = key,
                               !.count = limit, !.rk = rk, !.thid = thid,
                               !.route = route]
    IN  IF route # "all"
        THEN /\ last' = [call EXCEPT !.raised = TRUE]
             /\ UNCHANGED <<now, index, index_exp, payload, enq, context, tasks>>
        ELSE LET idx == expire_helper(index, key, now)
             IN  /\ index' = idx
                 /\ index_exp' = KeepExp(idx, index_exp)
                 /\ last' = [call EXCEPT !.before = Before(key),
                                          !.replies =
                                DeliveryReplies(index, payload, key, limit,
                                                rk, thid, now)]
                 /\ UNCHANGED <<now, payload, enq, context, tasks>>

\* a handler that reports the count it found before the removal
MessagesReceived_handle_stale(key, message_id_list, thid, route) ==
    LET call == [NoCall EXCEPT !.op = "MessagesReceived", !.key = key,
                               !.ids = message_id_list, !.thid = thid,
                               !.route = route]
    IN  IF route # "all"
        THEN /\ last' = [call EXCEPT !.raised = TRUE]
             /\ UNCHANGED <<now, index, index_exp, payload, enq, context, tasks>>
        ELSE LET idx1 == expire_helper(index, key, now)
                 st == IF ZRange(idx1[key], 0, 0) # <<>>
                       THEN RemoveStore(expire_helper(idx1, key, now),
                                        payload, key, message_id_list)
                       ELSE [idx |-> idx1, pl |-> payload, struck |-> {}]
                 idx2 == expire_helper(st.idx, key, now)
             IN  /\ index' = idx2
                 /\ index_exp' = KeepExp(idx2, index_exp)
                 /\ payload' = st.pl
                 /\ enq' = [enq EXCEPT ![key] =
                              [m \in Msgs |->
                                 IF message_id_for_outbound(m)
                                        \in message_id_list
                                 THEN -1 ELSE enq[key][m]]]
                 /\ last' = [call EXCEPT !.before = Before(key),
                                          !.replies =
                                <<Status(None, Cardinality(idx1[key]), thid)>>]
                 /\ UNCHANGED <<now, context, tasks>>

MessagesReceived_handle(key, message_id_list, thid, route) ==
    LET call == [NoCall EXCEPT !.op = "MessagesReceived", !.key = key,
                               !.ids = message_id_list, !.thid = thid,
                               !.route = route]
    IN  IF route # "all"
        THEN /\ last' = [call EXCEPT !.raised = TRUE]
             /\ UNCHANGED <<now, index, index_exp, payload, enq, context, tasks>>
        ELSE LET idx1 == expire_helper(index, key, now)
                 st == IF ZRange(idx1[key], 0, 0) # <<>>
                       THEN RemoveStore(expire_helper(idx1, key, now),
                                        payload, key, message_id_list)
                       ELSE [idx |-> idx1, pl |-> payload, struck |-> {}]
                 idx2 == expire_helper(st.idx, key, now)
             IN  /\ index' = idx2
                 /\ index_exp' = KeepExp(idx2, index_exp)
                 /\ payload' = st.pl
                 /\ enq' = [enq EXCEPT ![key] =
                              [m \in Msgs |->
                                 IF message_id_for_outbound(m)
                                        \in message_id_list
                                 THEN -1 ELSE enq[key][m]]]
                 /\ last' = [call EXCEPT !.before = Before(key),
                                          !.replies =
                                <<Status(None, Cardinality(idx2[key]), thid)>>]
                 /\ UNCHANGED <<now, context, tasks>>

\* undeliverable: add_message(kid, enc_payload) for every recipient of the
\* envelope's protected header
RECURSIVE AddAll(_, _, _, _)
AddAll(st, recipients, msg, t) ==
    IF recipients = {} THEN st
    ELSE LET kid == CHOOSE k \in recipients : TRUE
         IN  AddAll(AddStore(st.idx, st.iexp, st.pl, kid, msg, t),
                    recipients \ {kid}, msg, t)

undeliverable(recipients, enc_payload) ==
    LET st == AddAll([idx |-> index, iexp |-> index_exp, pl |-> payload],
                     recipients, enc_payload, now)
    IN  /\ index' = st.idx
        /\ index_exp' = st.iexp
        /\ payload' = st.pl
        /\ enq' = [k \in Keys |->
                     IF k \in recipients
                     THEN [enq[k] EXCEPT ![enc_payload] = now] ELSE enq[k]]
        /\ last' = [NoCall EXCEPT !.op = "undeliverable",
                                  !.msg = enc_payload,
                                  !.recipients = recipients]
        /\ UNCHANGED <<now, context, tasks>>

\* --------------------------------------------------------- specification
\* identifier sets of remove_messages_for_key and MessagesReceived: every
\* set of enqueued identifiers, and one mixing a known and an unknown one
IdSets ==
    SUBSET {message_id_for_outbound("A"), message_id_for_outbound("B")}
        \cup {{message_id_for_outbound("A"), message_id_for_outbound("C")}}

\* what a request carries besides its own fields: thread id and return route
Transports ==
    {tr \in [thid : ThreadIds, route : Routes] :
        tr.route = "all" \/ tr.thid = "t1"}

StoreCall ==
    \/ \E p \in Posted : add_message(p[1], p[2])
    \/ \E k \in Keys : has_message_for_key(k)
    \/ \E k \in Keys : message_count_for_key(k)
    \/ \E k \in Keys, c \in Limits : get_messages_for_key(k, c)
    \/ \E k \in Keys : inspect_all_messages_for_key(k)
    \/ \E k \in Keys, ids \in IdSets : remove_messages_for_key(k, ids)

Undeliverable ==
    \E rs \in (SUBSET Keys) \ {{}}, m \in Msgs :
        /\ \A k \in rs : <<k, m>> \in Posted
        /\ undeliverable(rs, m)

DeliveryRequest ==
    \E k \in Keys, c \in Limits, rk \in OptKeys, tr \in Transports :
        DeliveryRequest_handle(k, c, rk, tr.thid, tr.route)

MessagesReceived ==
    \E k \in Keys, ids \in IdSets, tr \in Transports :
        MessagesReceived_handle(k, ids, tr.thid, tr.route)

\* the store under any caller, with the adapter and the delivery handler
Next ==
    \/ Tick
    \/ StoreCall
    \/ Undeliverable
    \/ DeliveryRequest

Spec == Init /\ [][Next]_vars

\* a DeliveryRequest that leaves its optional recipient_key field out
Request ==
    \E k \in Keys, c \in Limits, tr \in Transports :
        DeliveryRequest_handle(k, c, None, tr.thid, tr.route)

\* the plugin as deployed: the adapter enqueues, the two handlers read,
\* acknowledge and reply
NextProtocol ==
    \/ Tick
    \/ Undeliverable
    \/ Request
    \/ MessagesReceived

SpecProtocol == Init /\ [][NextProtocol]_vars

\* one mailbox, K1, under adds, re-adds and reads
NextMailbox ==
    \/ Tick
    \/ \E m \in Msgs : add_message("K1", m)
    \/ \E c \in Limits : get_messages_for_key("K1", c)
    \/ message_count_for_key("K1")

SpecMailbox == Init /\ [][NextMailbox]_vars

\* ---------------------------------------------------------- plugin setup
\* RedisUndeliveredQueue.__init__: whether it raises ValueError, and the
\* ttl_seconds the instance keeps
three_days == 60 * 60 * 24 * 3

RedisUndeliveredQueue(ttl) ==
    IF \E t \in ttl : t <= 0
    THEN [raised |-> TRUE, ttl_seconds |-> 0]
    ELSE [raised |-> FALSE,
          ttl_seconds |-> IF ttl = {} THEN three_days
                          ELSE CHOOSE t \in ttl : TRUE]

\* the context before the plugin is loaded
Loading(settings) ==
    [settings |-> settings, registered |-> FALSE, subscribed |-> FALSE,
     queue |-> "none", ttl_seconds |-> 0]

\* setup(context): register the message types, subscribe undeliverable to
\* the event, then read the settings and build and bind the queue
setup ==
    /\ ~context.registered
    /\ LET persistence == context.settings.persistence
           redis_uri == context.settings.server
           ttl == context.settings.ttl_hours
           made == RedisUndeliveredQueue(ttl)
           raises == \/ persistence \notin {"mem", "redis"}
                     \/ /\ persistence = "redis"
                        /\ (redis_uri = None \/ made.raised)
           loaded == [context EXCEPT !.registered = TRUE,
                                     !.subscribed = TRUE]
       IN  /\ context' =
                 IF raises THEN loaded
                 ELSE IF persistence = "mem"
                      THEN [loaded EXCEPT !.queue = "mem"]
                      ELSE [loaded EXCEPT !.queue = "redis",
                                          !.ttl_seconds = made.ttl_seconds]
           /\ last' = [NoCall EXCEPT !.op = "setup", !.raised = raises]
    /\ UNCHANGED <<now, index, index_exp, payload, enq, tasks>>

InitSetup ==
    /\ InitStore
    /\ \E settings \in Settings : context = Loading(settings)

\* the event bus calls undeliverable once it is subscribed and the queue
\* it injects is bound; the message is not waiting in K1's mailbox
SetupEnqueue ==
    \E m \in Msgs :
        /\ context.subscribed
        /\ context.queue = "redis"
        /\ message_id_for_outbound(m) \notin Members(Swept("K1"))
        /\ undeliverable({"K1"}, m)

SetupRead ==
    /\ context.queue = "redis"
    /\ get_messages_for_key("K1", Cardinality(Msgs))

NextSetup ==
    \/ setup
    \/ Tick
    \/ SetupEnqueue
    \/ SetupRead

SpecSetup == InitSetup /\ [][NextSetup]_vars

\* ------------------------------------------------------- pickup scenario
\* one requester, K1, whose queue keeps messages longer than the clock runs
ScenarioTtl == MaxTime + 1
ScenarioLimits == {2, 10}

InitScenario ==
    /\ InitStore
    /\ context = Bound(ScenarioTtl)

\* a message that is not waiting in K1's mailbox becomes undeliverable
ScenarioEnqueue ==
    \E m \in Msgs :
        /\ message_id_for_outbound(m) \notin Members(index["K1"])
        /\ undeliverable({"K1"}, m)

ScenarioRequest ==
    \E c \in ScenarioLimits, tr \in Transports :
        DeliveryRequest_handle("K1", c, None, tr.thid, tr.route)

ScenarioReceived ==
    \E ids \in IdSets, tr \in Transports :
        MessagesReceived_handle("K1", ids, tr.thid, tr.route)

NextScenario ==
    \/ Tick
    \/ ScenarioEnqueue
    \/ ScenarioRequest
    \/ ScenarioReceived

SpecScenario == InitScenario /\ [][NextScenario]_vars

\* ------------------------------------------------ calls that interleave
\* Each await of a queue method is one Redis command; Redis runs commands
\* one at a time, so a step is one command and the steps of calls in flight
\* interleave freely.

\* add_message, line 73: read time.time()
add_message_begin(t, recipient_key, msg) ==
    /\ tasks[t].pc = "idle"
    /\ tasks' = [tasks EXCEPT ![t] =
                    [Idle EXCEPT !.pc = "zadd", !.key = recipient_key,
                                 !.msg = msg, !.score = now]]
    /\ UNCHANGED <<now, index, index_exp, payload, enq, last, context>>

\* an index insert that replaces what the index holds
add_message_zadd_replace(t) ==
    /\ tasks[t].pc = "zadd"
    /\ LET key == tasks[t].key
           msg_ident == message_id_for_outbound(tasks[t].msg)
       IN  index' = [index EXCEPT ![key] =
                        {[member |-> msg_ident, score |-> tasks[t].score]}]
    /\ tasks' = [tasks EXCEPT ![t].pc = "expire"]
    /\ UNCHANGED <<now, index_exp, payload, enq, last, context>>

\* add_message, line 77: zadd nx
add_message_zadd(t) ==
    /\ tasks[t].pc = "zadd"
    /\ LET key == tasks[t].key
           msg_ident == message_id_for_outbound(tasks[t].msg)
       IN  index' = [index EXCEPT ![key] =
                        ZAddNX(index[key], msg_ident, tasks[t].score)]
    /\ tasks' = [tasks EXCEPT ![t].pc = "expire"]
    /\ UNCHANGED <<now, index_exp, payload, enq, last, context>>

\* add_message, line 78: expire, which does nothing on a key that is gone
add_message_expire(t) ==
    /\ tasks[t].pc = "expire"
    /\ LET key == tasks[t].key
       IN  index_exp' = IF index[key] # {}
                        THEN [index_exp EXCEPT ![key] = now + ttl_seconds]
                        ELSE index_exp
    /\ tasks' = [tasks EXCEPT ![t].pc = "setex"]
    /\ UNCHANGED <<now, index, payload, enq, last, context>>

\* add_message, lines 79-81: setex, and the call returns
add_message_setex(t) ==
    /\ tasks[t].pc = "setex"
    /\ LET key == tasks[t].key
           msg == tasks[t].msg
           msg_ident == message_id_for_outbound(msg)
       IN  /\ payload' = [payload EXCEPT ![msg_ident] =
                            [val |-> msg, exp |-> now + ttl_seconds]]
           /\ enq' = [enq EXCEPT ![key][msg] = tasks[t].score]
           /\ last' = [NoCall EXCEPT !.op = "add_message",
                                     !.key = key, !.msg = msg]
    /\ tasks' = [tasks EXCEPT ![t] = Idle]
    /\ UNCHANGED <<now, index, index_exp, context>>

remove_messages_for_key_begin(t, recipient_key, msg_idents) ==
    /\ tasks[t].pc = "idle"
    /\ tasks' = [tasks EXCEPT ![t] =
                    [Idle EXCEPT !.pc = "expire_zrange",
                                 !.key = recipient_key, !.ids = msg_idents]]
    /\ UNCHANGED <<now, index, index_exp, payload, enq, last, context>>

\* expire_helper, lines 157-160: zrange byscore
remove_expire_zrange(t) ==
    /\ tasks[t].pc = "expire_zrange"
    /\ LET msg_idents ==
               Members(ZRangeByScore(index[tasks[t].key], 0,
                                     now - ttl_seconds))
       IN  tasks' = [tasks EXCEPT ![t].held = msg_idents,
                                  ![t].pc = IF msg_idents # {}
                                            THEN "expire_zrem"
                                            ELSE "zrange"]
    /\ UNCHANGED <<now, index, index_exp, payload, enq, last, context>>

\* expire_helper, line 161: zrem of what the range read found
remove_expire_zrem(t) ==
    /\ tasks[t].pc = "expire_zrem"
    /\ LET key == tasks[t].key
           idx == [index EXCEPT ![key] = ZRem(index[key], tasks[t].held)]
       IN  /\ index' = idx
           /\ index_exp' = KeepExp(idx, index_exp)
    /\ tasks' = [tasks EXCEPT ![t].held = {}, ![t].pc = "zrange"]
    /\ UNCHANGED <<now, payload, enq, last, context>>

\* remove_messages_for_key, lines 149-151: zrange, intersection; the call
\* returns when the intersection is empty
remove_zrange(t) ==
    /\ tasks[t].pc = "zrange"
    /\ LET key == tasks[t].key
           known_msg_idents == Range(ZRange(index[key], 0, -1))
           intersection == known_msg_idents \cap tasks[t].ids
       IN  IF intersection # {}
           THEN /\ tasks' = [tasks EXCEPT ![t].held = intersection,
                                          ![t].pc = "zrem"]
                /\ UNCHANGED <<enq, last>>
           ELSE /\ tasks' = [tasks EXCEPT ![t] = Idle]
                /\ enq' = [enq EXCEPT ![key] =
                             [m \in Msgs |->
                                IF message_id_for_outbound(m) \in tasks[t].ids
                                THEN -1 ELSE enq[key][m]]]
                /\ last' = [NoCall EXCEPT
                               !.op = "remove_messages_for_key",
                               !.key = key, !.ids = tasks[t].ids]
    /\ UNCHANGED <<now, index, index_exp, payload, context>>

\* remove_messages_for_key, line 152: zrem of the intersection
remove_zrem(t) ==
    /\ tasks[t].pc = "zrem"
    /\ LET key == tasks[t].key
           idx == [index EXCEPT ![key] = ZRem(index[key], tasks[t].held)]
       IN  /\ index' = idx
           /\ index_exp' = KeepExp(idx, index_exp)
    /\ tasks' = [tasks EXCEPT ![t].pc = "delete"]
    /\ UNCHANGED <<now, payload, enq, last, context>>

\* remove_messages_for_key, line 153: delete, and the call returns
remove_delete(t) ==
    /\ tasks[t].pc = "delete"
    /\ LET key == tasks[t].key
       IN  /\ payload' = [i \in Idents |->
                            IF i \in tasks[t].held THEN NoPayload
                            ELSE payload[i]]
           /\ enq' = [enq EXCEPT ![key] =
                        [m \in Msgs |->
                           IF message_id_for_outbound(m) \in tasks[t].ids
                           THEN -1 ELSE enq[key][m]]]
           /\ last' = [NoCall EXCEPT !.op = "remove_messages_for_key",
                                     !.key = key, !.ids = tasks[t].ids,
                                     !.n = Cardinality(tasks[t].held)]
    /\ tasks' = [tasks EXCEPT ![t] = Idle]
    /\ UNCHANGED <<now, index, index_exp, context>>

AllIdle == \A t \in Tasks : tasks[t].pc = "idle"

\* the clock advances between calls: a call's commands take far less than
\* the second the clock counts
TickIdle == AllIdle /\ Tick

AddSteps ==
    \/ \E t \in Tasks : add_message_zadd(t)
    \/ \E t \in Tasks : add_message_expire(t)
    \/ \E t \in Tasks : add_message_setex(t)

RemoveSteps ==
    \/ \E t \in Tasks : remove_expire_zrange(t)
    \/ \E t \in Tasks : remove_expire_zrem(t)
    \/ \E t \in Tasks : remove_zrange(t)
    \/ \E t \in Tasks : remove_zrem(t)
    \/ \E t \in Tasks : remove_delete(t)

\* add_message calls for K1 that overlap within one reading of the clock
NextAdds ==
    \/ \E t \in Tasks, m \in Msgs : add_message_begin(t, "K1", m)
    \/ AddSteps

SpecAdds == Init /\ [][NextAdds]_vars

\* add_message and remove_messages_for_key calls for K1 that overlap
NextAddRemove ==
    \/ TickIdle
    \/ \E t \in Tasks, m \in {"A", "B"} : add_message_begin(t, "K1", m)
    \/ \E t \in Tasks, ids \in {{message_id_for_outbound("A")}, Idents} :
           remove_messages_for_key_begin(t, "K1", ids)
    \/ AddSteps
    \/ RemoveSteps

SpecAddRemove == Init /\ [][NextAddRemove]_vars

\* DeliveryRequest.handle, lines 41-52 and 66-69: the return-route check
\* and the awaited has_message_for_key; an empty mailbox is answered here
DeliveryRequest_handle_has(t, key, limit, rk, thid, route) ==
    LET call == [NoCall EXCEPT !.op = "DeliveryRequest", !.key = key,
                               !.count = limit, !.rk = rk, !.thid = thid,
                               !.route = route]
        idx == expire_helper(index, key, now)
    IN  /\ tasks[t].pc = "idle"
        /\ IF route # "all"
           THEN /\ last' = [call EXCEPT !.raised = TRUE]
                /\ UNCHANGED <<index, index_exp, tasks>>
           ELSE /\ index' = idx
                /\ index_exp' = KeepExp(idx, index_exp)
                /\ IF ZRange(idx[key], 0, 0) # <<>>
                   THEN /\ tasks' = [tasks EXCEPT ![t] =
                                       [Idle EXCEPT !.pc = "get",
                                                    !.key = key,
                                                    !.count = limit,
                                                    !.rk = rk,
                                                    !.thid = thid]]
                        /\ UNCHANGED last
                   ELSE /\ last' = [call EXCEPT !.replies =
                                       <<Status(rk, 0, thid)>>]
                        /\ UNCHANGED tasks
        /\ UNCHANGED <<now, payload, enq, context>>

\* DeliveryRequest.handle, lines 54-64: the awaited get_messages_for_key,
\* the attachments and the Delivery reply
DeliveryRequest_handle_get(t) ==
    LET key == tasks[t].key
        idx == expire_helper(index, key, now)
        msgs == GetMessages(idx, payload, key, tasks[t].count)
        message_attachments == [i \in 1..Len(msgs) |-> Attach(msgs[i])]
    IN  /\ tasks[t].pc = "get"
        /\ index' = idx
        /\ index_exp' = KeepExp(idx, index_exp)
        /\ last' = [NoCall EXCEPT
                       !.op = "DeliveryRequest", !.key = key,
                       !.count = tasks[t].count, !.rk = tasks[t].rk,
                       !.thid = tasks[t].thid, !.route = "all",
                       !.replies =
                           <<Delivery(message_attachments, tasks[t].thid)>>]
        /\ tasks' = [tasks EXCEPT ![t] = Idle]
        /\ UNCHANGED <<now, payload, enq, context>>

\* K1 asks for delivery while messages arrive for it, it acknowledges
\* messages from another session, and time passes
NextRace ==
    \/ Tick
    \/ \E m \in {"A", "B"} : undeliverable({"K1"}, m)
    \/ \E c \in Limits, tr \in Transports :
           DeliveryRequest_handle_has("p", "K1", c, None, tr.thid, tr.route)
    \/ DeliveryRequest_handle_get("p")
    \/ \E ids \in {{message_id_for_outbound("A")},
                     {message_id_for_outbound("A"),
                      message_id_for_outbound("B")}} :
           MessagesReceived_handle("K1", ids, "t1", "all")

SpecRace == Init /\ [][NextRace]_vars

\* ================================================================ claims
Ident(m) == message_id_for_outbound(m)
Entries(k, m) == {r \in index[k] : r.member = Ident(m)}
ScoreOf(k, m) == (CHOOSE r \in Entries(k, m) : TRUE).score
Occurrences(s, m) == Cardinality({i \in DOMAIN s : s[i] = m})
Without(s, ids) == SelectSeq(s, LAMBDA m : Ident(m) \notin ids)

\* added at most ttl_seconds ago and not named by a removal since
Live(k, m) == enq[k][m] >= 0 /\ now < enq[k][m] + ttl_seconds

\* C1: get_messages_for_key(key, N) returns distinct non-expired messages of
\* key's mailbox in non-decreasing enqueue time, oldest first: no stored
\* message it leaves out is older than one it returns.
C1_OldestFirst ==
    last.op = "get_messages_for_key" =>
        LET k == last.key
            res == last.msgs
        IN  /\ \A i \in DOMAIN res :
                  /\ Entries(k, res[i]) # {}
                  /\ ScoreOf(k, res[i]) > now - ttl_seconds
            /\ \A i, j \in DOMAIN res :
                  i < j => /\ res[i] # res[j]
                           /\ ScoreOf(k, res[i]) <= ScoreOf(k, res[j])
            /\ \A r \in index[k], i \in DOMAIN res :
                  (payload[r.member].val # None
                     /\ payload[r.member].val \notin Range(res))
                  => ScoreOf(k, res[i]) <= r.score

C1_Witness ==
    /\ last.op = "get_messages_for_key"
    /\ Len(last.msgs) = 2
    /\ ScoreOf(last.key, last.msgs[1]) < ScoreOf(last.key, last.msgs[2])
    /\ Ident(last.msgs[1]) > Ident(last.msgs[2])

\* C2: once add_message(key, msg) has been called, also for the second or a
\* later time, key's mailbox holds msg exactly once: one index entry is
\* counted for it and get_messages_for_key returns the payload once.
C2_AddedOnce ==
    last.op = "add_message" =>
        /\ Cardinality({r \in Swept(last.key) :
                           r.member = Ident(last.msg)}) = 1
        /\ Occurrences(AllView(last.key), last.msg) = 1

\* C3: remove_messages_for_key(key, ids) strikes exactly the entries of key
\* whose identifier is in ids, leaves the others retrievable and in their
\* order, ignores unknown identifiers, and a second call with the same set
\* changes nothing.
C3_RemovesExactly ==
    last.op = "remove_messages_for_key" =>
        LET k == last.key
            again == RemoveStore(expire_helper(index, k, now), payload,
                                 k, last.ids)
        IN  /\ Members(Swept(k)) = last.before.members \ last.ids
            /\ AllView(k) = Without(last.before.msgs, last.ids)
            /\ last.n = Cardinality(last.before.members \cap last.ids)
            /\ again.idx = index /\ again.pl = payload

C3_Witness ==
    /\ last.op = "remove_messages_for_key"
    /\ last.ids = {Ident("A"), Ident("C")}
    /\ last.before.msgs = <<"B", "A">>
    /\ AllView(last.key) = <<"B">>

IsRead(call) ==
    \/ call.op = "get_messages_for_key"
    \/ call.op = "DeliveryRequest" /\ ~call.raised

\* C4: a read removes nothing: get_messages_for_key and an answered
\* DeliveryRequest leave the index entries, the count and the retrievable
\* messages as they were when the call started, and the same read repeated
\* straight away returns the same messages.
C4_ReadKeeps ==
    IsRead(last) =>
        LET k == last.key
            again == GetView(k, last.count)
        IN  /\ Members(Swept(k)) = last.before.members
            /\ CountView(k) = Cardinality(last.before.members)
            /\ AllView(k) = last.before.msgs
            /\ last.op = "get_messages_for_key" => again = last.msgs
            /\ (last.op = "DeliveryRequest"
                  /\ last.replies[1].type = "delivery")
               => [i \in DOMAIN again |-> Attach(again[i])]
                      = last.replies[1].attachments

C4_Witness ==
    /\ last.op = "get_messages_for_key"
    /\ last.count = 1
    /\ Len(last.msgs) = 1
    /\ CountView(last.key) = 2
    /\ Len(AllView(last.key)) = 2

OnOneKey(call) ==
    /\ call.key # None
    /\ ~call.raised

\* C5: an operation on one recipient key leaves what has_message_for_key,
\* message_count_for_key and get_messages_for_key answer for every other
\* key unchanged.
C5_KeysIndependent ==
    [][\A k1 \in Keys :
         (OnOneKey(last') /\ last'.key = k1) =>
         \A k2 \in Keys \ {k1} :
             /\ HasView(k2)' = HasView(k2)
             /\ CountView(k2)' = CountView(k2)
             /\ \A n \in Limits : GetView(k2, n)' = GetView(k2, n)
    ]_vars

\* C6: a message enqueued at time T is absent from every answer given at a
\* time >= T + ttl_seconds: has_message_for_key, message_count_for_key and
\* get_messages_for_key report only messages added less than ttl_seconds ago.
C6_ExpiredAbsent ==
    LET k == last.key
        live == {m \in Msgs : Live(k, m)}
    IN  /\ last.op = "has_message_for_key" => (last.has => live # {})
        /\ last.op = "message_count_for_key" => last.n <= Cardinality(live)
        /\ last.op = "get_messages_for_key" => Range(last.msgs) \subseteq live
        /\ last.op = "DeliveryRequest" =>
              \A i \in DOMAIN last.replies :
                  \A j \in DOMAIN last.replies[i].attachments :
                      last.replies[i].attachments[j].value \in live

C6_Witness ==
    /\ last.op = "has_message_for_key"
    /\ ~last.has
    /\ \E m \in Msgs : /\ enq[last.key][m] >= 0
                       /\ now >= enq[last.key][m] + ttl_seconds

\* C7: after add_message(key, msg) at time T2, also when msg was already in
\* the mailbox, msg stays counted in key's mailbox at every time in
\* [T2, T2 + ttl_seconds) unless a removal named it.
C7_AddRefreshes ==
    \A k \in Keys, m \in Msgs :
        Live(k, m) => Ident(m) \in Members(Swept(k))

\* C8: message_count_for_key(key) equals the number of messages
\* get_messages_for_key returns under a sufficient limit, and
\* has_message_for_key(key) holds only if a payload is retrievable.
C8_NoPhantom ==
    \A k \in Keys :
        /\ CountView(k) = Len(AllView(k))
        /\ HasView(k) => AllView(k) # <<>>

\* C9: get_messages_for_key(key, limit) returns at most limit messages and
\* a Delivery reply to DeliveryRequest{limit} has at most limit attachments.
C9_AtMostLimit ==
    /\ last.op = "get_messages_for_key" => Len(last.msgs) <= last.count
    /\ last.op = "DeliveryRequest" =>
          \A i \in DOMAIN last.replies :
              Len(last.replies[i].attachments) <= last.count

C9_Witness ==
    /\ last.op = "DeliveryRequest"
    /\ last.count = 1
    /\ Len(last.replies) = 1
    /\ last.replies[1].type = "delivery"
    /\ Len(last.replies[1].attachments) = 1
    /\ Len(AllView(last.key)) = 2

\* C10: a DeliveryRequest with return route "all" for a requester whose
\* mailbox is empty gets exactly one reply, the Status with message_count 0,
\* the request's own recipient_key field and the request's thread id.
C10_EmptyStatus ==
    (last.op = "DeliveryRequest" /\ last.route = "all"
        /\ CountView(last.key) = 0)
    => last.replies = <<[type |-> "status", thid |-> last.thid,
                         recipient_key |-> last.rk, message_count |-> 0,
                         attachments |-> <<>>]>>

C10_Witness ==
    /\ last.op = "DeliveryRequest"
    /\ last.key = "K2"
    /\ last.rk = "K1"
    /\ last.thid = "t2"
    /\ Len(last.replies) = 1
    /\ last.replies[1].type = "status"
    /\ CountView("K1") > 0

\* C11: every MessagesReceived with return route "all" gets exactly one
\* reply, a Status whose message_count is the count of the requester's
\* mailbox after the removal: the count when the call started minus the
\* number of claimed identifiers that were in the mailbox, whether or not
\* anything was removed.
C11_StatusCount ==
    (last.op = "MessagesReceived" /\ last.route = "all") =>
        /\ ~last.raised
        /\ last.replies = <<[type |-> "status", thid |-> last.thid,
                             recipient_key |-> None,
                             message_count |-> CountView(last.key),
                             attachments |-> <<>>]>>
        /\ CountView(last.key) =
              Cardinality(last.before.members)
                - Cardinality(last.before.members \cap last.ids)

C11_Witness ==
    /\ last.op = "MessagesReceived"
    /\ last.route = "all"
    /\ last.ids = {Ident("A"), Ident("C")}
    /\ Cardinality(last.before.members) = 2
    /\ last.replies[1].message_count = 1

\* C12: a DeliveryRequest or MessagesReceived whose return route is not
\* "all" raises HandlerException, sends no reply and leaves the store as it
\* was: nothing is fetched, removed or swept.
C12_NoRouteNoEffect ==
    [][(last'.op \in {"DeliveryRequest", "MessagesReceived"}
          /\ last'.route # "all")
       => /\ last'.raised
          /\ last'.replies = <<>>
          /\ UNCHANGED <<now, index, index_exp, payload>>
    ]_vars

C12_Witness ==
    /\ last.op = "DeliveryRequest"
    /\ last.raised
    /\ last.replies = <<>>
    /\ Swept(last.key) # index[last.key]

InOrder(k, m1, m2, m3) ==
    /\ 0 <= enq[k][m1]
    /\ enq[k][m1] < enq[k][m2]
    /\ enq[k][m2] < enq[k][m3]

Answered(call, op) == call.op = op /\ call.route = "all"

IsFetch(call) ==
    call.op \in {"get_messages_for_key", "inspect_all_messages_for_key"}

\* C14: get_messages_for_key and inspect_all_messages_for_key raise no error
\* and return real payloads only: an identifier of the index whose payload
\* lookup finds nothing is left out of the result, never returned as None.
C14_ReadsDropMissing ==
    IsFetch(last) =>
        /\ ~last.raised
        /\ \A i \in DOMAIN last.msgs : last.msgs[i] # None

\* C15: when setup raises, nothing has been initialised: no message type is
\* registered, no handler is subscribed to the undeliverable event and no
\* queue is bound.
C15_NoPartialSetup ==
    (last.op = "setup" /\ last.raised) =>
        /\ ~context.registered
        /\ ~context.subscribed
        /\ context.queue = "none"

\* C16: a Redis queue set up with ttl_hours = H > 0 keeps a message
\* retrievable at every time before its enqueue time + H * 3600 seconds, and
\* with no ttl_hours configured the queue's retention is three days.
C16_TtlInHours ==
    context.queue = "redis" =>
        /\ context.settings.ttl_hours = {} => ttl_seconds = 60 * 60 * 24 * 3
        /\ \A H \in context.settings.ttl_hours :
              \A m \in Msgs :
                  (enq["K1"][m] >= 0 /\ now < enq["K1"][m] + H * 3600)
                  => m \in Range(AllView("K1"))

\* C17: once an add_message and a remove_messages_for_key of the same
\* payload for the same key have both returned, in whatever order their
\* backend steps ran, every entry the index keeps has its payload: the
\* message is fully present or fully absent.
C17_RemoveAtomic ==
    AllIdle =>
        \A k \in Keys : \A r \in Swept(k) : payload[r.member].val # None

RECURSIVE AddEach(_, _, _, _)
AddEach(st, key, msgs, t) ==
    IF msgs = {} THEN st
    ELSE LET msg == CHOOSE m \in msgs : TRUE
         IN  AddEach(AddStore(st.idx, st.iexp, st.pl, key, msg, t),
                     key, msgs \ {msg}, t)

Added(k) == {m \in Msgs : enq[k][m] >= 0}

\* C18: when overlapping add_message calls for one key have all returned,
\* the mailbox holds every payload that was added exactly once, with its
\* payload retrievable, and the store is the one a sequential execution of
\* the same calls leaves.
C18_ConcurrentAdds ==
    AllIdle =>
        LET st == AddEach([idx |-> [k \in Keys |-> {}],
                           iexp |-> [k \in Keys |-> -1],
                           pl |-> [i \in Idents |-> NoPayload]],
                          "K1", Added("K1"), now)
        IN  /\ \A m \in Added("K1") :
                  /\ Cardinality(Entries("K1", m)) = 1
                  /\ Occurrences(AllView("K1"), m) = 1
            /\ CountView("K1") = Cardinality(Added("K1"))
            /\ index = st.idx /\ index_exp = st.iexp /\ payload = st.pl

C18_Witness ==
    /\ AllIdle
    /\ Added("K1") = Msgs
    /\ last.op = "add_message"

\* C19: add_message(key, msg) for a msg that is in key's mailbox leaves its
\* index entry, score included, as it was, so the identifiers of the
\* mailbox are read in the same order before and after, and the messages
\* get_messages_for_key returned before come in the same order after.
C19_ReAddKeepsPosition ==
    (last.op = "add_message"
        /\ Ident(last.msg) \in Members(last.entries))
    => LET k == last.key
           was == {r \in last.entries : r.member = Ident(last.msg)}
       IN  /\ Entries(k, last.msg) = was
           /\ ZRange(Swept(k), 0, -1) = ZRange(last.entries, 0, -1)
           /\ SelectSeq(AllView(k),
                        LAMBDA x : x \in Range(last.before.msgs))
                 = last.before.msgs

\* A re-added after B arrived: A keeps the older score and the first place
C19_Witness ==
    /\ last.op = "add_message"
    /\ last.key = "K1"
    /\ last.msg = "A"
    /\ AllView("K1") = <<"A", "B">>
    /\ ScoreOf("K1", "A") < ScoreOf("K1", "B")
    /\ ScoreOf("K1", "B") = now

\* C20: a DeliveryRequest with return route "all" ends in exactly one reply,
\* a Delivery with between 1 and limit attachments or a Status with
\* message_count 0, whatever runs between its existence check and its fetch.
C20_DeliveryNotEmpty ==
    (last.op = "DeliveryRequest" /\ last.route = "all") =>
        /\ ~last.raised
        /\ Len(last.replies) = 1
        /\ \/ /\ last.replies[1].type = "delivery"
              /\ Len(last.replies[1].attachments) >= 1
              /\ Len(last.replies[1].attachments) <= last.count
           \/ /\ last.replies[1].type = "status"
              /\ last.replies[1].message_count = 0

====
